---------------------------- MODULE Spec2Model ----------------------------
(***************************************************************************)
(* A model of preprocess/get_antenna_flags.py: main() loads a batch of     *)
(* captures, accumulates their power matrices, flags per-day outlier       *)
(* captures into bad_captures.txt, classifies every antenna-channel with   *)
(* flag(), downgrades polarization pairs and writes antenna_flags.txt.     *)
(*                                                                         *)
(* Arithmetic is exact integer arithmetic.  Python indices are kept        *)
(* 0-based: a matrix is a function 0..S-1 -> (0..F-1 -> power), a status   *)
(* list a function 0..S-1 -> status.  Files and the argument list are      *)
(* sequences.                                                              *)
(***************************************************************************)
EXTENDS Integers, Sequences, FiniteSets, TLC

\* ---------------------------------------------------------------- bounds
\* Files on the command line, antenna-channels of a capture, distinct days.
MaxFiles == 2
MaxS == 4
NDays == 2
\* The comparison window of flag(), chans=[1066,3552] in the source, scaled
\* down to [LoBin, HiBin); captures have one bin past the window.
LoBin == 1
HiBin == 5
\* Captures of the day-group analysed by the trend flagger, and antenna
\* channels of a status list handed to the pairing loop alone.
MaxCaptures == 11
MaxStatus == 4

NBins == HiBin + 1
chans == <<LoBin, HiBin>>

\* ------------------------------------------------------- program constants
BAD == 1
SUSPECT == 2
GOOD == 3
\* 10^(3/10) as a ratio: |10*log10(s) - 10*log10(m)| > 3 exactly when the
\* larger of s/m and m/s exceeds it (no ratio of the powers used here lies
\* between this approximation and the exact value).
Ratio3dB == <<199526, 100000>>

\* Per-antenna power levels of a capture (even, so that the median of an even
\* number of entries is an integer), median powers of a day-group, and the
\* powers handed to flag() alone.
Levels == {2, 8}
TrendPowers == {10, 100}
SpecPowers == {0, 1, 2}
MedianPowers == {0, 1}

VARIABLES
  args,           \* the capture file names, in command-line order
  power,          \* environment: the level each antenna-channel delivers (<<>>: not met yet)
  shapes,         \* history: the (S, F) of every capture accumulation was tried on
  mean_spec,      \* running sum of the power matrices (<<>>: not yet bound)
  med_power,      \* [mjd, median power] of every capture loaded so far
  bad_captures,   \* the file bad_captures.txt
  antenna_flags,  \* the file antenna_flags.txt
  prior,          \* history: both files as the run found them
  g,              \* day-groups processed so far
  valid,          \* indices (0-based) of the captures of the last day-group
  bad,            \* positions within that group flagged as outliers
  spec,           \* averaged spectrum handed to flag()
  med,            \* median spectrum handed to flag()
  status,         \* the status list
  pre,            \* history: the status list as flag() returned it
  i,              \* index of the pairing loop
  stdout,         \* the summary counts printed
  pc,             \* the stage main() is in
  err             \* the exception that ended the run ("none": none)

vars == <<args, power, shapes, mean_spec, med_power, bad_captures, antenna_flags,
          prior, g, valid, bad, spec, med, status, pre, i, stdout, pc, err>>

\* ---------------------------------------------------------------- helpers
NoSpec == <<>>
Absent == [exists |-> FALSE, text |-> <<>>]
File(t) == [exists |-> TRUE, text |-> t]
\* A capture file name "<mjd>_<id>.npz"; digits = FALSE: the prefix is no integer.
Name(d, j) == [digits |-> d # 0, mjd |-> d, id |-> j]
OldBad == File(<<Name(1, 0)>>)
OldFlags == File(<<<<MaxS, ",">>>>)

NRows(m) == Cardinality(DOMAIN m)
NCols(m) == Cardinality(DOMAIN m[0])
Abs(x) == IF x < 0 THEN -x ELSE x
Min(a, b) == IF a < b THEN a ELSE b

RECURSIVE Gcd(_, _)
Gcd(a, b) == IF b = 0 THEN a ELSE Gcd(b, a % b)

\* Sum of f[0..k-1].
RECURSIVE SumTo(_, _)
SumTo(f, k) == IF k = 0 THEN 0 ELSE f[k - 1] + SumTo(f, k - 1)

\* np.median of the values of f (a function on a finite set): the middle value,
\* or the mean of the two middle values.
Kth(f, k) ==
  CHOOSE x \in {f[j] : j \in DOMAIN f} :
    /\ Cardinality({j \in DOMAIN f : f[j] < x}) < k
    /\ Cardinality({j \in DOMAIN f : f[j] <= x}) >= k

Median(f) ==
  LET c == Cardinality(DOMAIN f)
  IN IF c % 2 = 1 THEN Kth(f, (c + 1) \div 2)
     ELSE (Kth(f, c \div 2) + Kth(f, c \div 2 + 1)) \div 2

\* np.median(spec): over the flattened matrix.
MedianAll(m) ==
  Median([p \in (DOMAIN m) \X (DOMAIN m[0]) |-> m[p[1]][p[2]]])

\* np.median(spec, axis=0): per bin, over the antenna-channels.
MedianAxis0(m) ==
  [b \in DOMAIN m[0] |-> Median([a \in DOMAIN m |-> m[a][b]])]

\* ------------------------------------------------------------- load phase
\* The power matrix np.load delivers for a capture of S antenna-channels and
\* F bins, data['masterSpectra'][0,...]: antenna-channel a at level pw[a].
Capture(pw, S, F) == [a \in 0..(S - 1) |-> [b \in 0..(F - 1) |-> pw[a]]]

Shapes == (1..MaxS) \X {1, NBins}

\* The levels the antenna-channels deliver are met with the first capture
\* and are the same in every later one.
Profiles(S) == IF DOMAIN power = {} THEN [0..(S - 1) -> Levels] ELSE {power}

\* numpy's rule for the in-place mean_spec += spec: every axis of spec has
\* the length of mean_spec's axis, or length 1 (it is then broadcast).  An
\* unbound mean_spec takes any capture (the NameError branch).
CanAdd(mean, sh) ==
  IF DOMAIN mean = {} THEN TRUE
  ELSE /\ sh[1] \in {1, NRows(mean)}
       /\ sh[2] \in {1, NCols(mean)}

Add(mean, s) ==
  [a \in DOMAIN mean |-> [b \in DOMAIN mean[a] |->
      mean[a][b] + s[IF NRows(s) = 1 THEN 0 ELSE a][IF NCols(s) = 1 THEN 0 ELSE b]]]

\* try: mean_spec += spec / except NameError: mean_spec = spec*1.0
Accumulate(mean, s) == IF DOMAIN mean = {} THEN s ELSE Add(mean, s)

Raise(e) == err' = e

\* The for loop over args still has a file to load.
Loading == Len(med_power) < Len(args)
\* A slip: the removal inside the loop, after the first capture.
LoadPhaseOverEarly == pc = "load" /\ Len(med_power) >= 1
LoadPhaseOver == pc = "load" /\ ~Loading

\* np.load(filename) raises: the file is missing or no archive.
LoadMissing ==
  /\ pc = "load" /\ err = "none" /\ Loading
  /\ Raise("IOError")
  /\ UNCHANGED <<args, power, shapes, mean_spec, med_power, bad_captures,
                 antenna_flags, prior, g, valid, bad, spec, med, status, pre,
                 i, stdout, pc>>

\* mean_spec += spec raises ValueError: the shapes cannot be broadcast.
LoadMismatch ==
  /\ pc = "load" /\ err = "none" /\ Loading
  /\ \E sh \in Shapes :
       /\ ~CanAdd(mean_spec, sh)
       /\ shapes' = Append(shapes, sh)
  /\ Raise("ValueError")
  /\ UNCHANGED <<args, power, mean_spec, med_power, bad_captures,
                 antenna_flags, prior, g, valid, bad, spec, med, status, pre,
                 i, stdout, pc>>

\* The capture is accumulated, then int(mjd, 10) raises ValueError.
LoadBadDay ==
  /\ pc = "load" /\ err = "none" /\ Loading
  /\ ~args[Len(med_power) + 1].digits
  /\ \E sh \in Shapes :
       /\ CanAdd(mean_spec, sh)
       /\ \E pw \in Profiles(sh[1]) :
            /\ power' = pw
            /\ mean_spec' = Accumulate(mean_spec, Capture(pw, sh[1], sh[2]))
       /\ shapes' = Append(shapes, sh)
  /\ Raise("ValueError")
  /\ UNCHANGED <<args, med_power, bad_captures, antenna_flags, prior,
                 g, valid, bad, spec, med, status, pre, i, stdout, pc>>

\* One pass of the loop: load, accumulate, parse the day, record the median.
LoadOk ==
  /\ pc = "load" /\ err = "none" /\ Loading
  /\ args[Len(med_power) + 1].digits
  /\ \E sh \in Shapes :
       /\ CanAdd(mean_spec, sh)
       /\ \E pw \in Profiles(sh[1]) :
            LET s == Capture(pw, sh[1], sh[2])
            IN /\ power' = pw
               /\ mean_spec' = Accumulate(mean_spec, s)
               /\ med_power' = Append(med_power,
                                      <<args[Len(med_power) + 1].mjd, MedianAll(s)>>)
       /\ shapes' = Append(shapes, sh)
  /\ UNCHANGED <<args, bad_captures, antenna_flags, prior, g, valid,
                 bad, spec, med, status, pre, i, stdout, pc, err>>

\* try: os.remove('bad_captures.txt') / except OSError: pass
RemoveBad ==
  /\ LoadPhaseOver /\ err = "none"
  /\ bad_captures' = Absent
  /\ pc' = "trend"
  /\ UNCHANGED <<args, power, shapes, mean_spec, med_power, antenna_flags,
                 prior, g, valid, bad, spec, med, status, pre, i, stdout, err>>

\* ------------------------------------------------------------ trend phase
NSigma == 3

\* np.unique(med_power[:,0]): the distinct days, ascending; Day(n) is the n-th.
Days == {med_power[c][1] : c \in 1..Len(med_power)}
Day(n) == CHOOSE d \in Days : Cardinality({e \in Days : e < d}) = n

\* np.where(med_power[:,0] == mjd)[0]: the captures of the day, ascending.
ValidOf(mjd) ==
  LET idx == {c \in 0..(Len(med_power) - 1) : med_power[c + 1][1] = mjd}
  IN [p \in 0..(Cardinality(idx) - 1) |->
        CHOOSE c \in idx : Cardinality({d \in idx : d < c}) = p]

\* med_power[valid,1]
PowersOf(v) == [p \in DOMAIN v |-> med_power[v[p] + 1][2]]

\* np.polyfit(np.arange(k), y, 1): the least-squares line, as the rationals
\* slope/den and icept/den.  den = k*Sxx - Sx^2 is 0 exactly when k = 1.
polyfit(y) ==
  LET k == Cardinality(DOMAIN y)
      x == [p \in DOMAIN y |-> p]
      Sx == SumTo(x, k)
      Sxx == SumTo([p \in DOMAIN y |-> p * p], k)
      Sy == SumTo(y, k)
      Sxy == SumTo([p \in DOMAIN y |-> p * y[p]], k)
  IN [den |-> k * Sxx - Sx * Sx,
      slope |-> k * Sxy - Sx * Sy,
      icept |-> Sy * Sxx - Sx * Sxy]

\* y - np.polyval(run_fit, np.arange(k)), times run_fit's denominator.
Detrend(y, fit) == [p \in DOMAIN y |-> fit.den * y[p] - fit.slope * p - fit.icept]

\* med_power_detrened - run_mean, times k; then divided by the common factor
\* of all entries (the outlier test is homogeneous in them, and the squares
\* below must stay within 32 bits).
Deviations(r) ==
  LET k == Cardinality(DOMAIN r)
      T == SumTo(r, k)
      d == [p \in DOMAIN r |-> k * r[p] - T]
      RECURSIVE GcdTo(_)
      GcdTo(n) == IF n = 0 THEN 0 ELSE Gcd(Abs(d[n - 1]), GcdTo(n - 1))
      c == GcdTo(k)
  IN IF c = 0 THEN d ELSE [p \in DOMAIN r |-> d[p] \div c]

\* Slips: the threshold at 1 and at 2 standard deviations.
OutliersOneSigma(d) ==
  LET k == Cardinality(DOMAIN d)
      Q == SumTo([p \in DOMAIN d |-> d[p] * d[p]], k)
  IN {p \in DOMAIN d : k * d[p] * d[p] > Q}

OutliersTwoSigma(d) ==
  LET k == Cardinality(DOMAIN d)
      Q == SumTo([p \in DOMAIN d |-> d[p] * d[p]], k)
  IN {p \in DOMAIN d : k * d[p] * d[p] > 4 * Q}

\* np.where(np.abs(dev)/run_std > 3)[0] with run_std the population standard
\* deviation: |d|/sqrt(Q/k) > 3 exactly when k*d^2 > 9*Q, Q the sum of the
\* squares.  With Q = 0 the quotient is 0/0 = nan, and nan > 3 is False.
Outliers(d) ==
  LET k == Cardinality(DOMAIN d)
      Q == SumTo([p \in DOMAIN d |-> d[p] * d[p]], k)
  IN {p \in DOMAIN d : k * d[p] * d[p] > NSigma * NSigma * Q}

\* for b in bad: fh.write(args[valid[b]]+'\n')
RECURSIVE BadLines(_, _, _)
BadLines(v, b, p) ==
  IF p >= Cardinality(DOMAIN v) THEN <<>>
  ELSE (IF p \in b THEN <<args[v[p] + 1]>> ELSE <<>>) \o BadLines(v, b, p + 1)

\* with open('bad_captures.txt', 'a'): the file is created when missing.
AppendTo(f, lines) == File(f.text \o lines)

InTrend == pc = "trend" /\ err = "none" /\ g < Cardinality(Days)

\* One pass of the loop over the days, for a day with at least two captures.
TrendGroup ==
  /\ InTrend
  /\ LET v == ValidOf(Day(g))
         y == PowersOf(v)
         b == Outliers(Deviations(Detrend(y, polyfit(y))))
     IN /\ Cardinality(DOMAIN v) >= 2
        /\ valid' = v
        /\ bad' = b
        /\ bad_captures' = AppendTo(bad_captures, BadLines(v, b, 0))
  /\ g' = g + 1
  /\ UNCHANGED <<args, power, shapes, mean_spec, med_power, antenna_flags,
                 prior, spec, med, status, pre, i, stdout, pc, err>>

\* A day with one capture: polyfit scales the column of x = [0] by its norm 0,
\* the design matrix holds nan, and lstsq either raises LinAlgError (SVD did
\* not converge) ...
TrendLinAlgError ==
  /\ InTrend
  /\ Cardinality(DOMAIN ValidOf(Day(g))) = 1
  /\ valid' = ValidOf(Day(g))
  /\ Raise("LinAlgError")
  /\ UNCHANGED <<args, power, shapes, mean_spec, med_power, bad_captures,
                 antenna_flags, prior, g, bad, spec, med, status, pre, i,
                 stdout, pc>>

\* ... or returns nan coefficients, depending on the LAPACK build: the
\* residual is nan, nothing compares greater than 3, and bad is empty.
TrendNaN ==
  /\ InTrend
  /\ Cardinality(DOMAIN ValidOf(Day(g))) = 1
  /\ valid' = ValidOf(Day(g))
  /\ bad' = {}
  /\ bad_captures' = AppendTo(bad_captures, <<>>)
  /\ g' = g + 1
  /\ UNCHANGED <<args, power, shapes, mean_spec, med_power, antenna_flags,
                 prior, spec, med, status, pre, i, stdout, pc, err>>

\* ------------------------------------------------------------- flag phase
\* spec = mean_spec / len(args); med = np.median(spec, axis=0).  Both are
\* kept as numerators over the common denominator len(args): flag() compares
\* powers only through their ratio.
Average ==
  /\ pc = "trend" /\ err = "none" /\ g = Cardinality(Days)
  /\ spec' = mean_spec
  /\ med' = MedianAxis0(mean_spec)
  /\ pc' = "flag"
  /\ UNCHANGED <<args, power, shapes, mean_spec, med_power, bad_captures,
                 antenna_flags, prior, g, valid, bad, status, pre, i, stdout,
                 err>>

\* np.abs(10*log10(s) - 10*log10(m)) > 3.  log10(0) is -inf: the difference
\* is infinite against a positive power and nan (never > 3) against another 0.
Deviates(s, m) ==
  IF s = 0 \/ m = 0 THEN s # m
  ELSE \/ s * Ratio3dB[2] > m * Ratio3dB[1]
       \/ m * Ratio3dB[2] > s * Ratio3dB[1]

\* A slip: >= for >.
TooManyBadGE(nbad, nchan) == 4 * nbad >= nchan

\* len(bad) > 0.25*nchan
TooManyBad(nbad, nchan) == 4 * nbad > nchan

\* flag(spec, median_spec, chans): the slices [chans[0]:chans[1]] stop at the
\* last bin there is; nchan is the window's nominal width.
flag(sp, median_spec, ch) ==
  LET nchan == ch[2] - ch[1]
      window == {b \in DOMAIN median_spec : ch[1] <= b /\ b < ch[2]}
      badbins(a) == {b \in window : Deviates(sp[a][b], median_spec[b])}
  IN [a \in DOMAIN sp |->
        IF TooManyBad(Cardinality(badbins(a)), nchan) THEN BAD ELSE GOOD]

Flag ==
  /\ pc = "flag" /\ err = "none"
  /\ status' = flag(spec, med, chans)
  /\ pre' = flag(spec, med, chans)
  /\ i' = 0
  /\ pc' = "pair"
  /\ UNCHANGED <<args, power, shapes, mean_spec, med_power, bad_captures,
                 antenna_flags, prior, g, valid, bad, spec, med, stdout, err>>

\* ------------------------------------------------------------- pair phase
\* A slip: the loop stops before an unpaired last index.
PairLoopSkipsLast(n, len) == n + 1 < len

\* for i in range(0, len(status), 2): the loop has an index left.
PairLoopRunning(n, len) == n < len

\* A slip: 'and' for 'or'.
NeedsDowngradeBoth(sx, sy) == sx # GOOD /\ sy # GOOD

\* if sx != 3 or sy != 3
NeedsDowngrade(sx, sy) == sx # GOOD \/ sy # GOOD

\* A slip: both members set to SUSPECT, whatever they were.
DowngradeFlat(s) == SUSPECT

\* min([status[i], 2])
Downgrade(s) == Min(s, SUSPECT)

InPair == pc = "pair" /\ err = "none" /\ PairLoopRunning(i, Cardinality(DOMAIN status))

PairStep ==
  /\ InPair
  /\ i + 1 \in DOMAIN status
  /\ status' = IF NeedsDowngrade(status[i], status[i + 1])
               THEN [status EXCEPT ![i] = Downgrade(status[i]),
                                   ![i + 1] = Downgrade(status[i + 1])]
               ELSE status
  /\ i' = i + 2
  /\ UNCHANGED <<args, power, shapes, mean_spec, med_power, bad_captures,
                 antenna_flags, prior, g, valid, bad, spec, med, pre, stdout,
                 pc, err>>

\* sy = status[i+1] raises IndexError on the last index of an odd-length list.
PairIndexError ==
  /\ InPair
  /\ i + 1 \notin DOMAIN status
  /\ Raise("IndexError")
  /\ UNCHANGED <<args, power, shapes, mean_spec, med_power, bad_captures,
                 antenna_flags, prior, g, valid, bad, spec, med, status, pre,
                 i, stdout, pc>>

\* ------------------------------------------------------------ report phase
Count(st, s) == Cardinality({a \in DOMAIN st : st[a] = s})

Report ==
  /\ pc = "pair" /\ err = "none"
  /\ ~PairLoopRunning(i, Cardinality(DOMAIN status))
  /\ stdout' = <<<<"Good", Count(status, GOOD)>>,
                 <<"Suspect", Count(status, SUSPECT)>>,
                 <<"Bad", Count(status, BAD)>>>>
  /\ pc' = "write"
  /\ UNCHANGED <<args, power, shapes, mean_spec, med_power, bad_captures,
                 antenna_flags, prior, g, valid, bad, spec, med, status, pre,
                 i, err>>

\* A slip: only BAD channels are written.
PersistedBadOnly(l) == l = BAD

\* if l != 3
Persisted(l) == l # GOOD

\* for i,l in enumerate(status): if l != 3: fh.write(f"{i},")
RECURSIVE FlagText(_, _)
FlagText(st, a) ==
  IF a >= Cardinality(DOMAIN st) THEN <<>>
  ELSE (IF Persisted(st[a]) THEN <<<<a, ",">>>> ELSE <<>>) \o FlagText(st, a + 1)

\* with open('antenna_flags.txt', 'w')
WriteFlags ==
  /\ pc = "write" /\ err = "none"
  /\ antenna_flags' = File(FlagText(status, 0))
  /\ pc' = "done"
  /\ UNCHANGED <<args, power, shapes, mean_spec, med_power, bad_captures,
                 prior, g, valid, bad, spec, med, status, pre, i, stdout, err>>

\* ---------------------------------------------------------- specifications
ArgLists ==
  UNION {{[j \in 1..m |-> Name(ds[j], j)] : ds \in [1..m -> 0..NDays]} :
         m \in 1..MaxFiles}

Init ==
  /\ args \in ArgLists
  /\ power = <<>>
  /\ prior \in {[bad_captures |-> Absent, antenna_flags |-> Absent],
                [bad_captures |-> OldBad, antenna_flags |-> OldFlags]}
  /\ bad_captures = prior.bad_captures
  /\ antenna_flags = prior.antenna_flags
  /\ shapes = <<>>
  /\ mean_spec = NoSpec
  /\ med_power = <<>>
  /\ g = 0
  /\ valid = <<>>
  /\ bad = {}
  /\ spec = NoSpec
  /\ med = <<>>
  /\ status = <<>>
  /\ pre = <<>>
  /\ i = 0
  /\ stdout = <<>>
  /\ pc = "load"
  /\ err = "none"

Next ==
  \/ LoadMissing \/ LoadMismatch \/ LoadBadDay \/ LoadOk
  \/ RemoveBad
  \/ TrendGroup \/ TrendLinAlgError \/ TrendNaN
  \/ Average \/ Flag
  \/ PairStep \/ PairIndexError
  \/ Report \/ WriteFlags

Spec == Init /\ [][Next]_vars

\* The trend flagger alone, from the state main() is in when the load loop
\* has ended: the captures are 1 x 1 matrices whose powers are drawn from
\* TrendPowers, all of day 2 but for at most one capture of day 1 or 3, the
\* first or the last of the list.
TrendInit ==
  /\ \E k \in 1..MaxCaptures : \E ys \in [1..k -> TrendPowers] :
       \E q \in {0, 1, k} : \E d \in {1, 3} :
         /\ med_power = [j \in 1..k |-> <<IF j = q THEN d ELSE 2, ys[j]>>]
         /\ args = [j \in 1..k |-> Name(IF j = q THEN d ELSE 2, j)]
         /\ shapes = [j \in 1..k |-> <<1, 1>>]
         /\ mean_spec = [a \in 0..0 |-> [b \in 0..0 |-> SumTo([j \in 0..(k - 1) |-> ys[j + 1]], k)]]
  /\ power = [a \in 0..0 |-> 2]
  /\ prior = [bad_captures |-> OldBad, antenna_flags |-> OldFlags]
  /\ bad_captures = prior.bad_captures
  /\ antenna_flags = prior.antenna_flags
  /\ g = 0
  /\ valid = <<>>
  /\ bad = {}
  /\ spec = NoSpec
  /\ med = <<>>
  /\ status = <<>>
  /\ pre = <<>>
  /\ i = 0
  /\ stdout = <<>>
  /\ pc = "load"
  /\ err = "none"

TrendNext == RemoveBad \/ TrendGroup \/ TrendLinAlgError \/ TrendNaN

TrendSpec == TrendInit /\ [][TrendNext]_vars

\* flag() alone, on one antenna-channel and a median spectrum drawn
\* independently of it.
FlagInit ==
  /\ spec \in [0..0 -> [0..(NBins - 1) -> SpecPowers]]
  /\ med \in [0..(NBins - 1) -> MedianPowers]
  /\ args = <<Name(1, 1)>>
  /\ power = [a \in 0..0 |-> 2]
  /\ shapes = <<<<1, NBins>>>>
  /\ mean_spec = spec
  /\ med_power = <<<<1, MedianAll(spec)>>>>
  /\ prior = [bad_captures |-> OldBad, antenna_flags |-> OldFlags]
  /\ bad_captures = File(<<>>)
  /\ antenna_flags = prior.antenna_flags
  /\ g = 1
  /\ valid = <<0>>
  /\ bad = {}
  /\ status = <<>>
  /\ pre = <<>>
  /\ i = 0
  /\ stdout = <<>>
  /\ pc = "flag"
  /\ err = "none"

FlagNext == Flag

FlagSpec == FlagInit /\ [][FlagNext]_vars

\* The pairing loop alone, on every status list over {BAD, SUSPECT, GOOD}.
PairInit ==
  /\ status \in UNION {[0..(S - 1) -> {BAD, SUSPECT, GOOD}] : S \in 1..MaxStatus}
  /\ pre = status
  /\ args = <<Name(1, 1)>>
  /\ power = [a \in 0..0 |-> 2]
  /\ shapes = <<>>
  /\ mean_spec = NoSpec
  /\ med_power = <<>>
  /\ prior = [bad_captures |-> OldBad, antenna_flags |-> OldFlags]
  /\ bad_captures = File(<<>>)
  /\ antenna_flags = prior.antenna_flags
  /\ g = 0
  /\ valid = <<>>
  /\ bad = {}
  /\ spec = NoSpec
  /\ med = <<>>
  /\ i = 0
  /\ stdout = <<>>
  /\ pc = "pair"
  /\ err = "none"

PairNext == PairStep \/ PairIndexError

PairSpec == PairInit /\ [][PairNext]_vars

\* ------------------------------------------------------------------ claims
NStatus == Cardinality(DOMAIN status)
\* The other member of antenna-channel a's polarization pair.
Partner(a) == IF a % 2 = 0 THEN a + 1 ELSE a - 1
\* The pairs the loop has been through.
Paired == {a \in DOMAIN status : a < i /\ Partner(a) \in DOMAIN status}
ThisRun(f) == f.exists /\ \A n \in 1..Len(f.text) : \E j \in 1..Len(args) : f.text[n] = args[j]

\* C1 as stated: a pair flag() returned as (GOOD, BAD) or (BAD, GOOD) leaves
\* the pairing step as (SUSPECT, SUSPECT).
C1_GoodBadBecomesSuspectSuspect ==
  \A a \in Paired :
    (pre[a] = GOOD /\ pre[Partner(a)] = BAD)
      => (status[a] = SUSPECT /\ status[Partner(a)] = SUSPECT)

\* C1 amended: such a pair leaves the pairing step with its GOOD member
\* SUSPECT and its BAD member still BAD; it is never (BAD, BAD) and neither
\* member is left GOOD.
C1_GoodBadBecomesSuspectBad ==
  \A a \in Paired :
    (pre[a] = GOOD /\ pre[Partner(a)] = BAD)
      => /\ status[a] = SUSPECT
         /\ status[Partner(a)] = BAD
         /\ status[a] # GOOD /\ status[Partner(a)] # GOOD
         /\ ~(status[a] = BAD /\ status[Partner(a)] = BAD)

C1_Witness ==
  /\ pc = "done"
  /\ \E a \in Paired : a % 2 = 0 /\ pre[a] = GOOD /\ pre[a + 1] = BAD
  /\ \E a \in Paired : a % 2 = 0 /\ pre[a] = BAD /\ pre[a + 1] = GOOD

\* C2: on a status list of even length, a pair that was (GOOD, GOOD) is
\* unchanged by the pairing loop, and in any other pair every member ends as
\* the smaller of its own earlier status and SUSPECT; no pair ends with
\* exactly one GOOD member.
C2_PairLoopMinRule ==
  NStatus % 2 = 0 =>
    \A a \in Paired :
      /\ (pre[a] = GOOD /\ pre[Partner(a)] = GOOD) => status[a] = GOOD
      /\ ~(pre[a] = GOOD /\ pre[Partner(a)] = GOOD) =>
           status[a] = (CASE pre[a] = GOOD -> SUSPECT
                          [] pre[a] = SUSPECT -> SUSPECT
                          [] pre[a] = BAD -> BAD)
      /\ ~(status[a] = GOOD /\ status[Partner(a)] # GOOD)

C2_Witness ==
  /\ NStatus = 4 /\ i = 4
  /\ pre = [a \in 0..3 |-> CASE a = 0 -> GOOD [] a = 1 -> BAD [] a = 2 -> SUSPECT [] a = 3 -> GOOD]
  /\ status = [a \in 0..3 |-> CASE a = 0 -> SUSPECT [] a = 1 -> BAD [] a = 2 -> SUSPECT [] a = 3 -> SUSPECT]

\* The day-group of C3: median powers 10, 10, 10, 10, 100 in encounter order.
Spike == [p \in 0..4 |-> IF p = 4 THEN 100 ELSE 10]
SpikeProcessed == pc = "trend" /\ err = "none" /\ g > 0 /\ PowersOf(valid) = Spike

\* C3 as stated: for that day-group the trend flagger flags exactly index 4.
C3_SpikeFlagged == SpikeProcessed => bad = {4}

\* C3 amended: for that day-group the trend flagger flags no index (the
\* residuals of the fit are 18, 0, -18, -36, 36, their population standard
\* deviation is sqrt(648), and none is more than 3 of it off), and none of
\* the group's files is written to bad_captures.txt.
C3_SpikeNotFlagged ==
  SpikeProcessed =>
    /\ bad = {}
    /\ \A n \in 1..Len(bad_captures.text) :
         \A p \in DOMAIN valid : bad_captures.text[n] # args[valid[p] + 1]

C3_Witness == SpikeProcessed /\ bad_captures.exists

\* The residuals of the last day-group have zero standard deviation.
ZeroStd ==
  LET y == PowersOf(valid)
      d == Deviations(Detrend(y, polyfit(y)))
  IN \A p \in DOMAIN d : d[p] = 0

\* C4 as stated: for a day-group of one capture, or one whose residuals have
\* zero standard deviation, the trend flagger ends without an error and
\* flags no capture of the group.
C4_DegenerateGroupNoError ==
  (pc = "trend" /\ valid # <<>> /\ (Cardinality(DOMAIN valid) = 1 \/ ZeroStd))
    => (err = "none" /\ bad = {})

\* 10*log10(p) in thousandths of a dB, for the powers flag() is handed.
MilliDb(p) == CASE p = 1 -> 0 [] p = 2 -> 3010 [] p = 4 -> 6021 [] p = 8 -> 9031
Over3dB(s, m) ==
  IF s = 0 \/ m = 0 THEN s # m ELSE Abs(MilliDb(s) - MilliDb(m)) > 3000
DeviatingBins(a) ==
  {b \in DOMAIN med : LoBin <= b /\ b < HiBin /\ Over3dB(spec[a][b], med[b])}

\* C5: flag() returns BAD for an antenna-channel exactly when more than a
\* quarter of the window's W = hiBin - loBin bins are over 3 dB off the
\* median spectrum, GOOD otherwise, and never SUSPECT; a channel equal to the
\* median spectrum is GOOD.
C5_FlagThreshold ==
  pc = "pair" =>
    \A a \in DOMAIN pre :
      /\ pre[a] \in {BAD, GOOD}
      /\ pre[a] = BAD <=> 4 * Cardinality(DeviatingBins(a)) > HiBin - LoBin
      /\ spec[a] = med => pre[a] = GOOD

C5_Witness ==
  /\ pc = "pair"
  /\ Cardinality(DeviatingBins(0)) = 2
  /\ pre[0] = BAD

\* C6 as stated: a batch with a capture whose shape differs from the first
\* capture's fails with an error during accumulation, and neither output
\* file is removed or written.
C6_ShapeMismatchFails ==
  (\E j \in 1..Len(shapes) : shapes[j] # shapes[1])
    => /\ pc = "load" /\ err = "ValueError"
       /\ bad_captures = prior.bad_captures
       /\ antenna_flags = prior.antenna_flags

\* C7: after a run that completes, antenna_flags.txt holds exactly the
\* indices of the antenna-channels whose final status is not GOOD, each once
\* and followed by a comma, in ascending order, and nothing of its earlier
\* content.
C7_FlagFileListsNonGood ==
  pc = "done" =>
    LET t == antenna_flags.text
    IN /\ antenna_flags.exists
       /\ \A n \in 1..Len(t) :
            /\ t[n][2] = ","
            /\ t[n][1] \in DOMAIN status
            /\ status[t[n][1]] # GOOD
       /\ \A n \in 1..Len(t) : \A m \in 1..Len(t) : n < m => t[n][1] < t[m][1]
       /\ \A a \in DOMAIN status : status[a] # GOOD => \E n \in 1..Len(t) : t[n][1] = a

C7_Witness ==
  /\ pc = "done"
  /\ prior.antenna_flags = OldFlags
  /\ NStatus = 4
  /\ \E a \in DOMAIN status : status[a] = GOOD
  /\ Len(antenna_flags.text) = 2

\* C8: with an odd number of antenna-channels the pairing step ends in an
\* error on the last index: the summary counts are not printed and
\* antenna_flags.txt is not written.
C8_OddCountFails ==
  (pc \notin {"load", "trend", "flag"} /\ NStatus % 2 = 1) =>
    /\ pc = "pair"
    /\ stdout = <<>>
    /\ antenna_flags = prior.antenna_flags
    /\ err \in {"none", "IndexError"}
    /\ (err = "none" /\ i = NStatus - 1) => ENABLED PairIndexError
    /\ i <= NStatus - 1

C8_Witness ==
  /\ err = "IndexError" /\ pc = "pair"
  /\ NStatus = 3
  /\ stdout = <<>>

\* C9: no capture of a day-group of at most 10 captures is flagged, whatever
\* the powers: bad is empty for it and bad_captures.txt gets no entry of it.
C9_SmallGroupsNeverFlagged ==
  (pc = "trend" /\ err = "none") =>
    /\ Cardinality(DOMAIN valid) <= 10 => bad = {}
    /\ \A n \in 1..Len(bad_captures.text) :
         Cardinality({c \in 1..Len(med_power) :
                        med_power[c][1] = bad_captures.text[n].mjd}) > 10

C9_Witness ==
  /\ pc = "trend" /\ err = "none" /\ g > 0
  /\ Cardinality(DOMAIN valid) = 10
  /\ PowersOf(valid) = [p \in 0..9 |-> IF p = 4 THEN 100 ELSE 10]
  /\ bad = {}

\* C10: bad_captures.txt is touched only once every file has been loaded,
\* accumulated and parsed for its day, and antenna_flags.txt only once every
\* day-group has been appended and the pairing loop has ended; a run that
\* fails while loading leaves both files as they were, and antenna_flags.txt
\* is never rewritten beside a bad_captures.txt of the previous run.
C10_FileEffectOrder ==
  /\ pc = "load" => (bad_captures = prior.bad_captures /\ antenna_flags = prior.antenna_flags)
  /\ pc # "load" => (Len(med_power) = Len(args) /\ Len(shapes) = Len(args))
  /\ antenna_flags # prior.antenna_flags =>
       /\ pc = "done"
       /\ g = Cardinality(Days)
       /\ ~PairLoopRunning(i, NStatus)
       /\ ThisRun(bad_captures)
  /\ pc \in {"flag", "pair", "write", "done"} => ThisRun(bad_captures)

C10_Witness ==
  /\ pc = "pair" /\ err = "IndexError"
  /\ prior.bad_captures = OldBad
  /\ bad_captures = File(<<>>)
  /\ antenna_flags = OldFlags
============================================================================
